---- MODULE Spec2Model ----
(***************************************************************************)
(* Model of the VADCP stream receiver                                      *)
(* (mi/instrument/teledyne/workhorse_adcp_5_beam_600khz/ooicore/           *)
(* receiver.py): the read loop run by a thread or greenlet, the callers    *)
(* of start() / end() / reset_internal_info() in other execution contexts, *)
(* the parsing pipeline timestamp_filter(pd0_filter(sink)) and the         *)
(* conversational state kept by the sink.                                  *)
(*                                                                         *)
(* Bytes are one-character strings.  A buffer, a line and a filter's       *)
(* residual are sequences of bytes.  Python's None is the string "None".   *)
(***************************************************************************)
EXTENDS Integers, Sequences, FiniteSets, TLC

\* ------------------------------------------------------------------ bounds

\* Number of socket reads that return a non-empty buffer in one behaviour.
MaxReads == 2

\* _Receiver.MAX_NUM_LINES, 1024 in receiver.py line 102, scaled down.
MAX_NUM_LINES == 2

\* Receivers one process builds.
MaxBuilt == 3

\* Particles and samples that reach the queues of a test case.
MaxSamples == 3

\* The largest count a test asks get_samples for.
MaxCount == 2

\* --------------------------------------------------------------- constants

None == "None"
NL == "\n"

\* None where a buffer is expected (the local recv before a read).
NoBuffer == <<None>>

\* defs.State: the names of the conversational states.
State_TBD == "TBD"
State_PROMPT == "PROMPT"
State_COLLECTING_DATA == "COLLECTING_DATA"

\* defs.PROMPT: the instrument's prompt marker.
PROMPT == <<">">>

\* Characters str.rstrip() removes.
Whitespace == {" ", NL}

\* First byte of a timestamp marker <<TS_MARK, value>>.
TS_MARK == "T"

\* Signature byte of an ensemble frame <<PD0_SIG, payload, checksum>>.
PD0_SIG == "H"

\* What one socket read can return: '' (the peer closed), or one of these
\* buffers: text with and without completed lines, the prompt with and
\* without trailing whitespace, timestamp markers and ensemble frames, whole,
\* cut, repeated, with a bad checksum and mixed with text.
Buffers ==
    { <<>>,
      <<"x">>, <<NL>>, <<">">>, <<" ", NL>>,
      <<"x", NL>>, <<">", NL>>,
      <<"x", NL, ">", NL>>, <<">", NL, "x", NL>>,
      <<TS_MARK>>, <<TS_MARK, "x">>, <<TS_MARK, "x", ">", NL>>,
      <<PD0_SIG, "x">>, <<PD0_SIG, "x", "x">>,
      <<PD0_SIG, "x", "x", "x">>, <<PD0_SIG, "x", "y">>,
      <<PD0_SIG, "x", "x", PD0_SIG, "y", "y">>,
      <<">", NL, PD0_SIG, "x", "x">> }

\* The mark _end_outfile writes.
END_MARK == <<"<_Receiver ended.>">>

\* ------------------------------------------------------- sequence helpers

\* s[i:] of Python for 0-based i >= 0, as a 1-based sequence.
Drop(s, n) == SubSeq(s, n + 1, Len(s))

Take(s, n) == SubSeq(s, 1, n)

\* The last n elements of s (all of s when it is shorter): s[-n:], n > 0.
LastN(s, n) == IF Len(s) <= n THEN s ELSE SubSeq(s, Len(s) - n + 1, Len(s))

\* str.rstrip(): s without its trailing whitespace.
RECURSIVE Rstrip(_)
Rstrip(s) ==
    IF s # <<>> /\ s[Len(s)] \in Whitespace THEN Rstrip(Take(s, Len(s) - 1)) ELSE s

\* Index of the first occurrence of byte b in s, 0 when there is none.
RECURSIVE FindFrom(_, _, _)
FindFrom(s, b, i) ==
    IF i > Len(s) THEN 0 ELSE IF s[i] = b THEN i ELSE FindFrom(s, b, i + 1)

Find(s, b) == FindFrom(s, b, 1)

\* ------------------------------------------------------------ the receiver

VARIABLES
    ooi_digi,       \* _ooi_digi: the connection is an OOI Digi, nothing is parsed
    data_listener,  \* _data_listener is given (TRUE) or None (FALSE)
    has_outfile,    \* _outfile is given (TRUE) or None (FALSE)
    prefix_state,   \* _prefix_state
    pc,             \* where the loop's execution context (_thr) stands
    active,         \* _active
    recv,           \* the local recv of _recv() / run(): the buffer just read
    state,          \* _state
    last_line,      \* _last_line
    new_line,       \* _new_line
    lines,          \* _lines
    recv_time,      \* _recv_time, as the number of the read that set it
    latest_ts,      \* _latest_ts
    latest_pd0,     \* _latest_pd0
    tsbuf,          \* residual bytes held by timestamp_filter
    pdbuf,          \* residual bytes held by pd0_filter
    closed,         \* number of pipeline.close() calls
    outfile,        \* what was written to _outfile, one entry per write()
    trans,          \* the TRANSITION records _set_state logged: <<old, new>>
    calls,          \* the data_listener invocations, in order
    fed,            \* every line completed since the last reset, in order
    delivered,      \* the _pd0_received calls: the ensemble, the state
                    \* before, the state and the slot after the updates
    buffered,       \* the _buffer_received calls: the state before, the
                    \* lines completed, the last line and the state after
    nreads,         \* socket reads that returned a non-empty buffer so far
    sock_failed,    \* sock.recv raised socket.error
    end_called,     \* end() was called after start() returned
    sock_result,    \* how the last sock.recv of the current _recv() ended
    pushed,         \* the buffers sent into the pipeline, in order
    extracted,      \* the timestamps and ensembles the sink was given, in order
    use_greenlet,   \* ReceiverBuilder._use_greenlet, one per process
    last_toggle,    \* the last of use_greenlets / use_default called, if any
    receivers,      \* what build_receiver returned so far: the kind of _thr
                    \* and whether start() was called
    data_callback_result,   \* DataSetIntegrationTestCase: the particles the
                            \* data callback queued
    samples_received,       \* DataSetQualificationTestCase: the queue of the
                            \* stream in data_subscribers.samples_received
    arrivals,       \* every particle and sample queued so far, in order
    gs_pc,          \* where the call of get_samples stands
    gs_class,       \* particle_class of the call (None: the call is by stream)
    gs_count,       \* count / sample_count of the call
    gs_found,       \* found
    gs_result       \* result

vars == <<ooi_digi, data_listener, has_outfile, prefix_state, pc, active, recv,
          state, last_line, new_line, lines, recv_time, latest_ts, latest_pd0,
          tsbuf, pdbuf, closed, outfile, trans, calls, fed, delivered, buffered,
          nreads, sock_failed, end_called, sock_result, pushed, extracted,
          use_greenlet, last_toggle, receivers,
          data_callback_result, samples_received, arrivals, gs_pc, gs_class,
          gs_count, gs_found, gs_result>>

\* The fields the sink's methods read and write, as one record.
Fields ==
    [state |-> state, last_line |-> last_line, new_line |-> new_line,
     lines |-> lines, latest_ts |-> latest_ts, latest_pd0 |-> latest_pd0,
     trans |-> trans, calls |-> calls, fed |-> fed,
     delivered |-> delivered, buffered |-> buffered, extracted |-> extracted,
     numl |-> 0, ncalls |-> 0, raised |-> FALSE]

\* _set_state without its test: every call logs a record.
SetState_AlwaysLogs(r, s) ==
    [r EXCEPT !.trans = Append(@, <<r.state, s>>), !.state = s]

\* _set_state: logs the transition and assigns, only when the state differs.
SetState(r, s) ==
    IF r.state # s
    THEN [r EXCEPT !.trans = Append(@, <<r.state, s>>), !.state = s]
    ELSE r

\* _update_lines without its eviction.
Evict_Never(ls) == ls

\* The eviction of _update_lines: self._lines[1 - MAX_NUM_LINES:].
Evict(ls) ==
    IF Len(ls) > MAX_NUM_LINES THEN LastN(ls, MAX_NUM_LINES - 1) ELSE ls

\* _update_lines keeping as last line the first line a buffer completes.
UpdateChar_FirstLineWins(r, c) ==
    IF c = NL
    THEN [r EXCEPT !.numl = @ + 1,
                   !.last_line = IF r.numl = 0 THEN r.new_line ELSE @,
                   !.new_line = <<>>,
                   !.lines = Evict(Append(r.lines, r.new_line)),
                   !.fed = Append(@, r.new_line)]
    ELSE [r EXCEPT !.new_line = Append(@, c)]

\* One character of the loop of _update_lines.
UpdateChar(r, c) ==
    IF c = NL
    THEN [r EXCEPT !.numl = @ + 1,
                   !.last_line = r.new_line,
                   !.new_line = <<>>,
                   !.lines = Evict(Append(r.lines, r.new_line)),
                   !.fed = Append(@, r.new_line)]
    ELSE [r EXCEPT !.new_line = Append(@, c)]

\* _update_lines: the characters of buffer from index i on; numl counts from 0.
RECURSIVE UpdateLinesFrom(_, _, _)
UpdateLinesFrom(r, buffer, i) ==
    IF i > Len(buffer) THEN r
    ELSE UpdateLinesFrom(UpdateChar(r, buffer[i]), buffer, i + 1)

\* _update_lines starting each buffer with an empty line in progress.
UpdateLines_FreshLine(r, buffer) ==
    UpdateLinesFrom([r EXCEPT !.numl = 0, !.new_line = <<>>], buffer, 1)

UpdateLines(r, buffer) == UpdateLinesFrom([r EXCEPT !.numl = 0], buffer, 1)

\* _buffer_received going back to the state of construction.
ClearState_ToTBD(r) == SetState(r, State_TBD)

\* What _buffer_received does when a line completed and is not the prompt.
ClearState(r) == [r EXCEPT !.state = None]

\* _buffer_received comparing the untrimmed line with the prompt.
BufferReceived_NoRstrip(r, buffer) ==
    LET u == UpdateLines(r, buffer)
        v == IF u.last_line = PROMPT THEN SetState(u, State_PROMPT)
             ELSE IF u.numl > 0 THEN ClearState(u)
             ELSE u
    IN  [v EXCEPT !.buffered = Append(@, [before |-> r.state, numl |-> u.numl,
                                          last_line |-> u.last_line,
                                          state |-> v.state])]

\* _buffer_received.
BufferReceived(r, buffer) ==
    LET u == UpdateLines(r, buffer)
        v == IF Rstrip(u.last_line) = PROMPT THEN SetState(u, State_PROMPT)
             ELSE IF u.numl > 0 THEN ClearState(u)
             ELSE u
    IN  [v EXCEPT !.buffered = Append(@, [before |-> r.state, numl |-> u.numl,
                                          last_line |-> u.last_line,
                                          state |-> v.state])]

\* _timestamp_received keeping the timestamp as a line of the history.
TimestampReceived_InLines(r, ts) ==
    [r EXCEPT !.latest_ts = ts, !.extracted = Append(@, <<"ts", ts>>),
              !.lines = Evict(Append(@, <<ts>>))]

\* _timestamp_received.
TimestampReceived(r, ts) ==
    [r EXCEPT !.latest_ts = ts, !.extracted = Append(@, <<"ts", ts>>)]

\* _pd0_received leaving a known state alone.
Pd0Store_OnlyIfUnknown(r, pd0) ==
    [(IF r.state \in {None, State_TBD}
      THEN SetState(r, State_COLLECTING_DATA) ELSE r) EXCEPT !.latest_pd0 = pd0]

\* The state and slot updates of _pd0_received, before the listener is called.
Pd0Store(r, pd0) ==
    [SetState(r, State_COLLECTING_DATA) EXCEPT !.latest_pd0 = pd0]

\* _pd0_received calling the listener only when the state changed.
Pd0Received_OnStateChange(r, pd0, listener, failAt) ==
    LET t == Pd0Store(r, pd0)
        s == [t EXCEPT !.delivered = Append(@, [pd0 |-> pd0, before |-> r.state,
                                                state |-> t.state,
                                                latest_pd0 |-> t.latest_pd0]),
                       !.extracted = Append(@, <<"pd0", pd0>>)]
    IN
    IF listener /\ r.state # State_COLLECTING_DATA
    THEN [s EXCEPT !.calls = Append(@, [pd0 |-> pd0, state |-> s.state,
                                         latest_pd0 |-> s.latest_pd0]),
                   !.ncalls = @ + 1,
                   !.raised = (s.ncalls + 1 = failAt)]
    ELSE s

\* _pd0_received calling the listener before it touches the state and the
\* slot.
Pd0Received_ListenerFirst(r, pd0, listener, failAt) ==
    LET c == IF listener
             THEN [r EXCEPT !.calls = Append(@, [pd0 |-> pd0, state |-> r.state,
                                                 latest_pd0 |-> r.latest_pd0]),
                            !.ncalls = @ + 1,
                            !.raised = (r.ncalls + 1 = failAt)]
             ELSE r
        t == Pd0Store(c, pd0)
    IN  [t EXCEPT !.delivered = Append(@, [pd0 |-> pd0, before |-> r.state,
                                           state |-> t.state,
                                           latest_pd0 |-> t.latest_pd0]),
                  !.extracted = Append(@, <<"pd0", pd0>>)]

\* _pd0_received; the listener, when given, is invoked with pd0 and raises
\* when this is its failAt-th invocation of the push (0: it never raises).
Pd0Received(r, pd0, listener, failAt) ==
    LET t == Pd0Store(r, pd0)
        s == [t EXCEPT !.delivered = Append(@, [pd0 |-> pd0, before |-> r.state,
                                                state |-> t.state,
                                                latest_pd0 |-> t.latest_pd0]),
                       !.extracted = Append(@, <<"pd0", pd0>>)]
    IN
    IF listener
    THEN [s EXCEPT !.calls = Append(@, [pd0 |-> pd0, state |-> s.state,
                                         latest_pd0 |-> s.latest_pd0]),
                   !.ncalls = @ + 1,
                   !.raised = (s.ncalls + 1 = failAt)]
    ELSE s

\* One pass of the loop of sink(): xelems is [ts, pd0] (None: no such key),
\* followed by the text that is left.  An exception raised by the listener
\* leaves the rest of the pass undone.
SinkEvent(r, ev, listener, failAt) ==
    LET a == IF ev.ts # None THEN TimestampReceived(r, ev.ts) ELSE r
        b == IF ev.pd0 # None THEN Pd0Received(a, ev.pd0, listener, failAt) ELSE a
    IN  IF b.raised THEN b
        ELSE IF ev.buffer # <<>> THEN BufferReceived(b, ev.buffer)
        ELSE b

\* The events of one push, delivered to the sink in order until one raises.
RECURSIVE SinkAll(_, _, _, _)
SinkAll(r, evs, listener, failAt) ==
    IF evs = <<>> \/ r.raised THEN r
    ELSE SinkAll(SinkEvent(r, Head(evs), listener, failAt), Tail(evs),
                 listener, failAt)


\* ------------------------------------------------------------ the pipeline

\* Bytes of a timestamp marker: TS_MARK and the value.
TS_LEN == 2

\* Bytes of an ensemble frame: PD0_SIG, the payload and its checksum.
PD0_LEN == 3

\* The checksum an ensemble frame must carry for its payload.
Checksum(payload) == payload

\* timestamp_filter on its residual followed by the new block: each complete
\* marker is removed and goes downstream as a timestamp, together with the
\* bytes before it; a marker cut by the end of the data is kept for the next
\* block.
RECURSIVE TsScan(_)
TsScan(data) ==
    LET i == Find(data, TS_MARK) IN
    IF i = 0
    THEN [out |-> IF data = <<>> THEN <<>> ELSE <<[ts |-> None, bytes |-> data]>>,
          buf |-> <<>>]
    ELSE IF Len(data) < i + TS_LEN - 1
    THEN [out |-> IF i = 1 THEN <<>>
                  ELSE <<[ts |-> None, bytes |-> Take(data, i - 1)]>>,
          buf |-> Drop(data, i - 1)]
    ELSE LET rest == TsScan(Drop(data, i + TS_LEN - 1)) IN
         [out |-> <<[ts |-> data[i + 1], bytes |-> Take(data, i - 1)]>> \o rest.out,
          buf |-> rest.buf]

\* pd0_filter on its residual followed by the bytes it is sent, with the
\* fields xts extracted upstream: no signature, the bytes pass as text; a
\* frame cut by the end of the data, the data is kept unconsumed; a bad
\* checksum, the signature is dropped and the scan goes on; a valid frame,
\* the ensemble goes to the sink and the scan goes on with the remainder.
RECURSIVE Pd0Scan(_, _)
\* pd0_filter emitting what it has of a frame cut by the end of the data.
Pd0Scan_EmitsPartial(xts, data) ==
    LET i == Find(data, PD0_SIG) IN
    IF i = 0
    THEN [out |-> IF xts = None /\ data = <<>> THEN <<>>
                  ELSE <<[ts |-> xts, pd0 |-> None, buffer |-> data]>>,
          buf |-> <<>>]
    ELSE IF Len(data) < i + PD0_LEN - 1
    THEN [out |-> <<[ts |-> xts,
                     pd0 |-> IF Len(data) > i THEN data[i + 1] ELSE None,
                     buffer |-> Take(data, i - 1)]>>,
          buf |-> <<>>]
    ELSE IF data[i + 2] # Checksum(data[i + 1])
    THEN LET rest == Pd0Scan(None, Drop(data, i)) IN
         [out |-> (IF xts = None /\ i = 1 THEN <<>>
                   ELSE <<[ts |-> xts, pd0 |-> None, buffer |-> Take(data, i - 1)]>>)
                  \o rest.out,
          buf |-> rest.buf]
    ELSE LET rest == Pd0Scan(None, Drop(data, i + PD0_LEN - 1)) IN
         [out |-> <<[ts |-> xts, pd0 |-> data[i + 1], buffer |-> Take(data, i - 1)]>>
                  \o rest.out,
          buf |-> rest.buf]

\* pd0_filter keeping a frame whose checksum is wrong, as if it were cut.
Pd0Scan_KeepsBadFrame(xts, data) ==
    LET i == Find(data, PD0_SIG) IN
    IF i = 0
    THEN [out |-> IF xts = None /\ data = <<>> THEN <<>>
                  ELSE <<[ts |-> xts, pd0 |-> None, buffer |-> data]>>,
          buf |-> <<>>]
    ELSE IF Len(data) < i + PD0_LEN - 1 \/ data[i + 2] # Checksum(data[i + 1])
    THEN [out |-> IF xts = None THEN <<>>
                  ELSE <<[ts |-> xts, pd0 |-> None, buffer |-> <<>>]>>,
          buf |-> data]
    ELSE LET rest == Pd0Scan(None, Drop(data, i + PD0_LEN - 1)) IN
         [out |-> <<[ts |-> xts, pd0 |-> data[i + 1], buffer |-> Take(data, i - 1)]>>
                  \o rest.out,
          buf |-> rest.buf]

Pd0Scan(xts, data) ==
    LET i == Find(data, PD0_SIG) IN
    IF i = 0
    THEN [out |-> IF xts = None /\ data = <<>> THEN <<>>
                  ELSE <<[ts |-> xts, pd0 |-> None, buffer |-> data]>>,
          buf |-> <<>>]
    ELSE IF Len(data) < i + PD0_LEN - 1
    THEN [out |-> IF xts = None THEN <<>>
                  ELSE <<[ts |-> xts, pd0 |-> None, buffer |-> <<>>]>>,
          buf |-> data]
    ELSE IF data[i + 2] # Checksum(data[i + 1])
    THEN LET rest == Pd0Scan(None, Drop(data, i)) IN
         [out |-> (IF xts = None /\ i = 1 THEN <<>>
                   ELSE <<[ts |-> xts, pd0 |-> None, buffer |-> Take(data, i - 1)]>>)
                  \o rest.out,
          buf |-> rest.buf]
    ELSE LET rest == Pd0Scan(None, Drop(data, i + PD0_LEN - 1)) IN
         [out |-> <<[ts |-> xts, pd0 |-> data[i + 1], buffer |-> Take(data, i - 1)]>>
                  \o rest.out,
          buf |-> rest.buf]

\* pd0_filter fed, one after the other, what timestamp_filter sent it.
RECURSIVE Pd0All(_, _)
Pd0All(pdb, touts) ==
    IF touts = <<>> THEN [out |-> <<>>, buf |-> pdb]
    ELSE LET p == Pd0Scan(Head(touts).ts, pdb \o Head(touts).bytes)
             rest == Pd0All(p.buf, Tail(touts))
         IN  [out |-> p.out \o rest.out, buf |-> rest.buf]

\* run() building the filters whatever ooi_digi says.
Pipeline_AlwaysFilters(digi, tsb, pdb, block) ==
    LET t == TsScan(tsb \o block)
        p == Pd0All(pdb, t.out)
    IN  [events |-> p.out, tsbuf |-> t.buf, pdbuf |-> p.buf]

\* run() building the pipeline inside its loop: every block meets new filters.
Pipeline_Fresh(digi, tsb, pdb, block) ==
    IF digi
    THEN [events |-> <<[ts |-> None, pd0 |-> None, buffer |-> block]>>,
          tsbuf |-> tsb, pdbuf |-> pdb]
    ELSE LET t == TsScan(block)
             p == Pd0All(<<>>, t.out)
         IN  [events |-> p.out, tsbuf |-> <<>>, pdbuf |-> <<>>]

\* pipeline.send(({}, block)): the events the sink receives and the filters'
\* residuals afterwards.  With ooi_digi the pipeline is the sink alone.
Pipeline(digi, tsb, pdb, block) ==
    IF digi
    THEN [events |-> <<[ts |-> None, pd0 |-> None, buffer |-> block]>>,
          tsbuf |-> tsb, pdbuf |-> pdb]
    ELSE LET t == TsScan(tsb \o block)
             p == Pd0All(pdb, t.out)
         IN  [events |-> p.out, tsbuf |-> t.buf, pdbuf |-> p.buf]


\* ----------------------------------------------------------- the transcript

\* buffer.replace('\n', "\n%20s| " % state): the state's name after each
\* newline.
RECURSIVE PrefixLines(_, _)
PrefixLines(buffer, st) ==
    IF buffer = <<>> THEN <<>>
    ELSE (IF Head(buffer) = NL THEN <<NL, st>> ELSE <<Head(buffer)>>)
         \o PrefixLines(Tail(buffer), st)

\* _update_outfile called after the push: the prefix is the state the buffer
\* led to.
Mirrored_AfterPush(buffer) ==
    IF prefix_state
    THEN PrefixLines(buffer,
                     SinkAll(Fields,
                             Pipeline(ooi_digi, tsbuf, pdbuf, buffer).events,
                             FALSE, 0).state)
    ELSE buffer

\* What _update_outfile writes for buffer.
Mirrored(buffer) ==
    IF prefix_state THEN PrefixLines(buffer, state) ELSE buffer

\* ------------------------------------------------------------------- Init

\* ReceiverBuilder.build_receiver / _Receiver.__init__: the construction
\* parameters are any (prefix_state is read only when there is an outfile,
\* and is left at its default without one); _state goes from None to TBD in
\* reset_internal_info.
Init ==
    /\ ooi_digi \in BOOLEAN
    /\ data_listener \in BOOLEAN
    /\ has_outfile \in BOOLEAN
    /\ prefix_state \in (IF has_outfile THEN BOOLEAN ELSE {TRUE})
    /\ pc = "created"
    /\ active = FALSE
    /\ recv = NoBuffer
    /\ state = State_TBD
    /\ last_line = <<>>
    /\ new_line = <<>>
    /\ lines = <<>>
    /\ recv_time = 0
    /\ latest_ts = None
    /\ latest_pd0 = None
    /\ tsbuf = <<>>
    /\ pdbuf = <<>>
    /\ closed = 0
    /\ outfile = <<>>
    /\ trans = <<<<None, State_TBD>>>>
    /\ calls = <<>>
    /\ fed = <<>>
    /\ delivered = <<>>
    /\ buffered = <<>>
    /\ nreads = 0
    /\ sock_failed = FALSE
    /\ end_called = FALSE
    /\ sock_result = None
    /\ pushed = <<>>
    /\ extracted = <<>>
    /\ use_greenlet = FALSE
    /\ last_toggle = None
    /\ receivers = <<>>
    /\ data_callback_result = <<>>
    /\ samples_received = <<>>
    /\ arrivals = <<>>
    /\ gs_pc = "idle"
    /\ gs_class = None
    /\ gs_count = 0
    /\ gs_found = 0
    /\ gs_result = <<>>

config == <<ooi_digi, data_listener, has_outfile, prefix_state>>
text == <<last_line, new_line, lines, fed>>
slots == <<latest_ts, latest_pd0>>
filters == <<tsbuf, pdbuf>>
logs == <<outfile, trans, calls, delivered, buffered, sock_failed>>
hist == <<pushed, extracted>>
builder == <<use_greenlet, last_toggle, receivers>>
harness == <<data_callback_result, samples_received, arrivals, gs_pc, gs_class,
             gs_count, gs_found, gs_result>>

\* ------------------------------------------------- callers' operations

\* start(): self._thr.start().  A thread is started once.
Start ==
    /\ pc = "created"
    /\ pc' = "started"
    /\ UNCHANGED <<config, active, recv, state, text, recv_time, slots, filters,
                   closed, logs, nreads, end_called,
                   sock_result, hist, builder, harness>>

\* end() calling reset_internal_info() as well.
End_Resets ==
    LET r == SetState(Fields, State_TBD) IN
    /\ active' = FALSE
    /\ end_called' = (end_called \/ pc # "created")
    /\ last_line' = <<>>
    /\ new_line' = <<>>
    /\ lines' = <<>>
    /\ fed' = <<>>
    /\ recv_time' = 0
    /\ state' = r.state
    /\ trans' = r.trans
    /\ UNCHANGED <<config, pc, recv, slots, filters, closed, outfile,
                   calls, delivered, buffered, sock_failed, nreads,
                   sock_result, hist, builder, harness>>

\* end() flipping the flag instead of clearing it.
End_Toggle ==
    /\ active' = ~active
    /\ end_called' = (end_called \/ pc # "created")
    /\ UNCHANGED <<config, pc, recv, state, text, recv_time, slots, filters,
                   closed, logs, nreads,
                   sock_result, hist, builder, harness>>

\* end(): self._active = False, from any execution context, at any time.
End ==
    /\ active' = FALSE
    /\ end_called' = (end_called \/ pc # "created")
    /\ UNCHANGED <<config, pc, recv, state, text, recv_time, slots, filters,
                   closed, logs, nreads,
                   sock_result, hist, builder, harness>>

\* reset_internal_info() taking the receiver back to construction, the
\* slots included.
ResetInternalInfo_ClearsSlots ==
    LET r == SetState(Fields, State_TBD) IN
    /\ last_line' = <<>>
    /\ new_line' = <<>>
    /\ lines' = <<>>
    /\ fed' = <<>>
    /\ recv_time' = 0
    /\ state' = r.state
    /\ trans' = r.trans
    /\ latest_ts' = None
    /\ latest_pd0' = None
    /\ UNCHANGED <<config, pc, active, recv, filters, closed, outfile,
                   calls, delivered, buffered, sock_failed, nreads, end_called,
                   sock_result, hist, builder, harness>>

\* reset_internal_info(), a public method.
ResetInternalInfo ==
    LET r == SetState(Fields, State_TBD) IN
    /\ last_line' = <<>>
    /\ new_line' = <<>>
    /\ lines' = <<>>
    /\ fed' = <<>>
    /\ recv_time' = 0
    /\ state' = r.state
    /\ trans' = r.trans
    /\ UNCHANGED <<config, pc, active, recv, slots, filters, closed, outfile,
                   calls, delivered, buffered, sock_failed, nreads, end_called,
                   sock_result, hist, builder, harness>>

\* set_latest_pd0(pd0), a public method.
SetLatestPd0(pd0) ==
    /\ latest_pd0' = pd0
    /\ UNCHANGED <<config, pc, active, recv, state, text, recv_time, latest_ts,
                   filters, closed, logs, nreads, end_called,
                   sock_result, hist, builder, harness>>

\* ------------------------------------------------------- the loop context

\* run() entered without start(): the constructor starting _thr.
RunInit_Unstarted ==
    /\ pc \in {"created", "started"}
    /\ active' = TRUE
    /\ tsbuf' = <<>>
    /\ pdbuf' = <<>>
    /\ pc' = "loop"
    /\ UNCHANGED <<config, recv, state, text, recv_time, slots, closed, logs,
                   nreads, end_called,
                   sock_result, hist, builder, harness>>

\* run(), up to the loop: the socket's timeout, self._active = True, the
\* pipeline built.
RunInit ==
    /\ pc = "started"
    /\ active' = TRUE
    /\ tsbuf' = <<>>
    /\ pdbuf' = <<>>
    /\ pc' = "loop"
    /\ UNCHANGED <<config, recv, state, text, recv_time, slots, closed, logs,
                   nreads, end_called,
                   sock_result, hist, builder, harness>>

\* run(): while self._active, then the call of _recv() with recv = None.
LoopCheck ==
    /\ pc = "loop"
    /\ pc' = IF active THEN "recv_check" ELSE "closing"
    /\ recv' = NoBuffer
    /\ sock_result' = None
    /\ UNCHANGED <<config, active, state, text, recv_time, slots, filters,
                   closed, logs, nreads, end_called,
                   hist, builder, harness>>

\* _recv(): while self._active and recv is None; when inactive it returns
\* None.
RecvCheck ==
    /\ pc = "recv_check"
    /\ pc' = IF active THEN "sock_recv" ELSE "loop"
    /\ UNCHANGED <<config, active, recv, state, text, recv_time, slots, filters,
                   closed, logs, nreads, end_called,
                   sock_result, hist, builder, harness>>

\* _recv() taking the receive time on every return of sock.recv, a timeout
\* included.
SockTimeout_TouchesRecvTime ==
    /\ pc = "sock_recv"
    /\ pc' = "recv_check"
    /\ sock_result' = "timeout"
    /\ recv_time' = nreads + 1
    /\ UNCHANGED <<config, active, recv, state, text, slots, filters,
                   closed, logs, nreads, end_called,
                   hist, builder, harness>>

\* _recv(): sock.recv raises socket.timeout; continue.
SockTimeout ==
    /\ pc = "sock_recv"
    /\ pc' = "recv_check"
    /\ sock_result' = "timeout"
    /\ UNCHANGED <<config, active, recv, state, text, recv_time, slots, filters,
                   closed, logs, nreads, end_called,
                   hist, builder, harness>>

\* _recv() handling socket.error as it handles socket.timeout.
SockError_AsTimeout ==
    /\ pc = "sock_recv"
    /\ sock_failed' = TRUE
    /\ pc' = "recv_check"
    /\ sock_result' = "error"
    /\ UNCHANGED <<config, active, recv, state, text, recv_time, slots, filters,
                   closed, outfile, trans, calls, delivered, buffered, nreads,
                   end_called,
                   hist, builder, harness>>

\* _recv(): sock.recv raises socket.error; inactive, return None.
SockError ==
    /\ pc = "sock_recv"
    /\ active' = FALSE
    /\ sock_failed' = TRUE
    /\ pc' = "loop"
    /\ sock_result' = "error"
    /\ UNCHANGED <<config, recv, state, text, recv_time, slots, filters,
                   closed, outfile, trans, calls, delivered, buffered, nreads,
                   end_called,
                   hist, builder, harness>>

\* _recv(): sock.recv returns buffer b ('' when the peer closed).
SockData(b) ==
    /\ pc = "sock_recv"
    /\ b # <<>> => nreads < MaxReads
    /\ recv' = b
    /\ nreads' = IF b # <<>> THEN nreads + 1 ELSE nreads
    /\ pc' = "recv_done"
    /\ sock_result' = "data"
    /\ UNCHANGED <<config, active, state, text, recv_time, slots, filters,
                   closed, logs, end_called,
                   hist, builder, harness>>

\* _recv() taking a read of no byte as the end of the connection.
RecvDone_EmptyEnds(wfail) ==
    /\ pc = "recv_done"
    /\ IF active /\ recv # <<>>
       THEN /\ recv_time' = nreads
            /\ IF has_outfile /\ wfail
               THEN /\ pc' = "crashed"
                    /\ UNCHANGED outfile
               ELSE /\ pc' = "send"
                    /\ outfile' = IF has_outfile
                                  THEN Append(outfile, Mirrored(recv))
                                  ELSE outfile
            /\ UNCHANGED <<recv, active>>
       ELSE /\ wfail = FALSE
            /\ pc' = "loop"
            /\ recv' = NoBuffer
            /\ active' = (active /\ recv # <<>>)
            /\ UNCHANGED <<recv_time, outfile>>
    /\ UNCHANGED <<config, state, text, slots, filters, closed, trans,
                   calls, delivered, buffered, sock_failed, nreads, end_called,
                   sock_result, hist, builder, harness>>

\* _recv(), after its loop: if self._active and recv, the receive time, the
\* transcript (whose write raises when wfail) and the buffer returned;
\* otherwise None is returned.
RecvDone(wfail) ==
    /\ pc = "recv_done"
    /\ IF active /\ recv # <<>>
       THEN /\ recv_time' = nreads
            /\ IF has_outfile /\ wfail
               THEN /\ pc' = "crashed"
                    /\ UNCHANGED outfile
               ELSE /\ pc' = "send"
                    /\ outfile' = IF has_outfile
                                  THEN Append(outfile, Mirrored(recv))
                                  ELSE outfile
            /\ UNCHANGED recv
       ELSE /\ wfail = FALSE
            /\ pc' = "loop"
            /\ recv' = NoBuffer
            /\ UNCHANGED <<recv_time, outfile>>
    /\ UNCHANGED <<config, active, state, text, slots, filters, closed, trans,
                   calls, delivered, buffered, sock_failed, nreads, end_called,
                   sock_result, hist, builder, harness>>

\* run(): pipeline.send(({}, recv)), through the filters to the sink.  An
\* exception raised by the listener leaves run().
Send(failAt) ==
    /\ pc = "send"
    /\ \E p \in {Pipeline(ooi_digi, tsbuf, pdbuf, recv)} :
       \E r \in {SinkAll(Fields, p.events, data_listener, failAt)} :
           /\ tsbuf' = p.tsbuf
           /\ pdbuf' = p.pdbuf
           /\ state' = r.state
           /\ last_line' = r.last_line
           /\ new_line' = r.new_line
           /\ lines' = r.lines
           /\ fed' = r.fed
           /\ latest_ts' = r.latest_ts
           /\ latest_pd0' = r.latest_pd0
           /\ trans' = r.trans
           /\ calls' = r.calls
           /\ delivered' = r.delivered
           /\ buffered' = r.buffered
           /\ extracted' = r.extracted
           /\ pushed' = Append(pushed, recv)
           /\ pc' = IF r.raised THEN "crashed" ELSE "loop"
    /\ UNCHANGED <<config, active, recv, recv_time, closed, outfile, nreads,
                   sock_failed, end_called,
                   sock_result, builder, harness>>

\* run() going back to its loop after the pipeline and the transcript are
\* closed.
Close_Reconnects ==
    /\ pc = "closing"
    /\ closed' = closed + 1
    /\ tsbuf' = <<>>
    /\ pdbuf' = <<>>
    /\ outfile' = IF has_outfile THEN Append(outfile, END_MARK) ELSE outfile
    /\ active' = (closed = 0)
    /\ pc' = IF closed = 0 THEN "loop" ELSE "ended"
    /\ UNCHANGED <<config, recv, state, text, recv_time, slots, trans,
                   calls, delivered, buffered, sock_failed, nreads, end_called,
                   sock_result, hist, builder, harness>>

\* run(), after the loop: pipeline.close() and _end_outfile().
Close ==
    /\ pc = "closing"
    /\ closed' = closed + 1
    /\ tsbuf' = <<>>
    /\ pdbuf' = <<>>
    /\ outfile' = IF has_outfile THEN Append(outfile, END_MARK) ELSE outfile
    /\ pc' = "ended"
    /\ UNCHANGED <<config, active, recv, state, text, recv_time, slots, trans,
                   calls, delivered, buffered, sock_failed, nreads, end_called,
                   sock_result, hist, builder, harness>>

\* A step of the loop's execution context.
LoopStep ==
    \/ RunInit
    \/ LoopCheck
    \/ RecvCheck
    \/ SockTimeout
    \/ SockError
    \/ \E b \in Buffers : SockData(b)
    \/ \E wfail \in BOOLEAN : RecvDone(wfail)
    \/ \E failAt \in (IF data_listener THEN {0, 1} ELSE {0}) : Send(failAt)
    \/ Close

\* A step of a caller, in another execution context.
CallerStep ==
    \/ Start
    \/ End

Next == LoopStep \/ CallerStep

\* The receiver as its owner drives it: built, started, ended.
Spec == Init /\ [][Next]_vars

\* The loop's execution context is scheduled as long as it can step.
FairSpec == Spec /\ WF_vars(LoopStep)

\* Every public method called from other execution contexts.
NextApi ==
    \/ Next
    \/ ResetInternalInfo
    \/ \E pd0 \in {"x"} : SetLatestPd0(pd0)

\* A receiver built for an instrument, with a listener and no transcript:
\* the methods of NextApi read no construction parameter.
InitApi == Init /\ ~ooi_digi /\ data_listener /\ ~has_outfile

\* The receiver with all its public methods called at any time.
SpecApi == InitApi /\ [][NextApi]_vars

\* ------------------------------------------------------------ the builder

\* Every variable of the receiver.
receiver == <<config, pc, active, recv, state, text, recv_time, slots, filters,
              closed, logs, nreads, end_called, sock_result, hist>>

\* ReceiverBuilder.use_greenlets().
UseGreenlets ==
    /\ use_greenlet' = TRUE
    /\ last_toggle' = "use_greenlets"
    /\ UNCHANGED <<receivers, receiver, harness>>

\* ReceiverBuilder.use_default().
UseDefault ==
    /\ use_greenlet' = FALSE
    /\ last_toggle' = "use_default"
    /\ UNCHANGED <<receivers, receiver, harness>>

\* build_receiver binding every receiver to a thread.
BuildReceiver_AlwaysThread ==
    /\ Len(receivers) < MaxBuilt
    /\ receivers' = Append(receivers, [thr |-> "Thread", daemon |-> TRUE,
                                       started |-> FALSE])
    /\ UNCHANGED <<use_greenlet, last_toggle, receiver, harness>>

\* ReceiverBuilder.build_receiver(...): a _Receiver whose _thr is a Greenlet
\* or a daemon Thread on its run, not started.
BuildReceiver ==
    /\ Len(receivers) < MaxBuilt
    /\ receivers' = Append(receivers,
                           IF use_greenlet
                           THEN [thr |-> "Greenlet", daemon |-> FALSE,
                                 started |-> FALSE]
                           ELSE [thr |-> "Thread", daemon |-> TRUE,
                                 started |-> FALSE])
    /\ UNCHANGED <<use_greenlet, last_toggle, receiver, harness>>

\* start() of the i-th receiver built: self._thr.start().
StartBuilt(i) ==
    /\ ~receivers[i].started
    /\ receivers' = [receivers EXCEPT ![i].started = TRUE]
    /\ UNCHANGED <<use_greenlet, last_toggle, receiver, harness>>

NextBuilder ==
    \/ UseGreenlets
    \/ UseDefault
    \/ BuildReceiver
    \/ \E i \in DOMAIN receivers : StartBuilt(i)

\* One process configuring the builder, building receivers and starting them.
SpecBuilder == Init /\ [][NextBuilder]_vars


\* --------------------------------------------------- the tests' get_samples

\* The classes of the particles a driver publishes.
Classes == {"A", "B"}

\* The class of what a stream's queue holds.
StreamSample == "S"

\* list.pop(k), k counted from 1: the list without its k-th element.
RemoveAt(q, k) == SubSeq(q, 1, k - 1) \o SubSeq(q, k + 1, Len(q))

\* DataSetIntegrationTestCase.data_callback: a particle of class c is
\* appended to data_callback_result.
DataCallback(c) ==
    /\ Len(arrivals) < MaxSamples
    /\ gs_pc \in {"idle", "int_pass", "int_sleep"}
    /\ LET d == [cls |-> c, id |-> Len(arrivals) + 1] IN
       /\ data_callback_result' = Append(data_callback_result, d)
       /\ arrivals' = Append(arrivals, d)
    /\ UNCHANGED <<samples_received, gs_pc, gs_class, gs_count, gs_found,
                   gs_result, receiver, builder>>

\* The data subscriber of the qualification test queues a sample of the
\* stream.
SampleReceived ==
    /\ Len(arrivals) < MaxSamples
    /\ gs_pc \notin {"int_pass", "int_sleep", "timedout"}
    /\ LET d == [cls |-> StreamSample, id |-> Len(arrivals) + 1] IN
       /\ samples_received' = Append(samples_received, d)
       /\ arrivals' = Append(arrivals, d)
    /\ UNCHANGED <<data_callback_result, gs_pc, gs_class, gs_count, gs_found,
                   gs_result, receiver, builder>>

\* DataSetIntegrationTestCase.get_samples(particle_class, count) is called:
\* result = [], found = 0.
GetSamples(particle_class, count) ==
    /\ gs_pc = "idle"
    /\ gs_pc' = "int_pass"
    /\ gs_class' = particle_class
    /\ gs_count' = count
    /\ gs_found' = 0
    /\ gs_result' = <<>>
    /\ UNCHANGED <<data_callback_result, samples_received, arrivals,
                   receiver, builder>>

\* The for loop of get_samples from the idx-th step of the list's iterator
\* on: enumerate gives i = idx - 1 and the element now at that place of the
\* list; a particle of the class makes the loop pop the element at
\* i - current_found; the loop breaks when found >= count.
RECURSIVE ScanFrom(_, _, _)
ScanFrom(st, particle_class, count) ==
    IF st.idx > Len(st.q) THEN st
    ELSE LET i == st.idx - 1
             data == st.q[st.idx]
             index == i - st.current_found
             a == IF data.cls = particle_class
                  THEN [st EXCEPT !.found = @ + 1,
                                  !.current_found = @ + 1,
                                  !.result = Append(@, st.q[index + 1]),
                                  !.q = RemoveAt(@, index + 1)]
                  ELSE st
         IN  IF a.found >= count THEN [a EXCEPT !.done = TRUE]
             ELSE ScanFrom([a EXCEPT !.idx = @ + 1], particle_class, count)

\* One pass of the while loop of get_samples: current_found = 0, the for
\* loop, then the return when done or gevent.sleep(1).
ScanPass ==
    /\ gs_pc = "int_pass"
    /\ \E st \in {ScanFrom([q |-> data_callback_result, idx |-> 1,
                             current_found |-> 0, found |-> gs_found,
                             result |-> gs_result, done |-> FALSE],
                            gs_class, gs_count)} :
           /\ data_callback_result' = st.q
           /\ gs_found' = st.found
           /\ gs_result' = st.result
           /\ gs_pc' = IF st.done THEN "returned" ELSE "int_sleep"
    /\ UNCHANGED <<samples_received, arrivals, gs_class, gs_count,
                   receiver, builder>>

\* gevent.sleep(1) returns: the while loop goes on.
ScanWake ==
    /\ gs_pc = "int_sleep"
    /\ gs_pc' = "int_pass"
    /\ UNCHANGED <<data_callback_result, samples_received, arrivals, gs_class,
                   gs_count, gs_found, gs_result, receiver, builder>>

\* The gevent.Timeout is raised in gevent.sleep(1): result = [] is returned.
ScanTimeout ==
    /\ gs_pc = "int_sleep"
    /\ gs_pc' = "timedout"
    /\ gs_result' = <<>>
    /\ UNCHANGED <<data_callback_result, samples_received, arrivals, gs_class,
                   gs_count, gs_found, receiver, builder>>

\* DataSetQualificationTestCase.get_samples(stream_name, sample_count) is
\* called: result = [].
GetStreamSamples(sample_count) ==
    /\ gs_pc = "idle"
    /\ gs_pc' = "q_while"
    /\ gs_class' = None
    /\ gs_count' = sample_count
    /\ gs_found' = 0
    /\ gs_result' = <<>>
    /\ UNCHANGED <<data_callback_result, samples_received, arrivals,
                   receiver, builder>>

\* while(len(result) < sample_count); after the loop, return result.
StreamWhile ==
    /\ gs_pc = "q_while"
    /\ gs_pc' = IF Len(gs_result) < gs_count THEN "q_pop" ELSE "returned"
    /\ UNCHANGED <<data_callback_result, samples_received, arrivals, gs_class,
                   gs_count, gs_found, gs_result, receiver, builder>>

\* If the stream's queue holds a sample, result.append(queue.pop(0)).
StreamPop ==
    /\ gs_pc = "q_pop"
    /\ gs_pc' = "q_check"
    /\ IF samples_received # <<>>
       THEN /\ gs_result' = Append(gs_result, Head(samples_received))
            /\ samples_received' = Tail(samples_received)
       ELSE UNCHANGED <<gs_result, samples_received>>
    /\ UNCHANGED <<data_callback_result, arrivals, gs_class, gs_count,
                   gs_found, receiver, builder>>

\* if(start_time + timeout < time.time()): raise SampleTimeout; late tells
\* whether the clock has passed the limit.
StreamCheckTimeout(late) ==
    /\ gs_pc = "q_check"
    /\ gs_pc' = IF late THEN "raised" ELSE "q_sleep_test"
    /\ UNCHANGED <<data_callback_result, samples_received, arrivals, gs_class,
                   gs_count, gs_found, gs_result, receiver, builder>>

\* With an empty queue gevent.sleep(.2), then the while test again.
StreamSleep ==
    /\ gs_pc = "q_sleep_test"
    /\ gs_pc' = IF samples_received = <<>> THEN "q_sleep" ELSE "q_while"
    /\ UNCHANGED <<data_callback_result, samples_received, arrivals, gs_class,
                   gs_count, gs_found, gs_result, receiver, builder>>

\* gevent.sleep(.2) returns.
StreamWake ==
    /\ gs_pc = "q_sleep"
    /\ gs_pc' = "q_while"
    /\ UNCHANGED <<data_callback_result, samples_received, arrivals, gs_class,
                   gs_count, gs_found, gs_result, receiver, builder>>

NextSamples ==
    \/ \E c \in Classes : DataCallback(c)
    \/ SampleReceived
    \/ \E c \in Classes, n \in 1..MaxCount : GetSamples(c, n)
    \/ ScanPass
    \/ ScanWake
    \/ ScanTimeout
    \/ \E n \in 1..MaxCount : GetStreamSamples(n)
    \/ StreamWhile
    \/ StreamPop
    \/ \E late \in BOOLEAN : StreamCheckTimeout(late)
    \/ StreamSleep
    \/ StreamWake

\* A test case: no receiver is at work, its fields stay as constructed.
InitSamples == Init /\ ~ooi_digi /\ ~data_listener /\ ~has_outfile

\* One call of get_samples on the queues the callbacks fill.
SpecSamples == InitSamples /\ [][NextSamples]_vars

\* ------------------------------------------------------------- properties

\* Number of end marks in the transcript.
RECURSIVE NumMarks(_)
NumMarks(out) ==
    IF out = <<>> THEN 0
    ELSE (IF Head(out) = END_MARK THEN 1 ELSE 0) + NumMarks(Tail(out))

\* C1: once end() was called after start() returned, the read loop
\* eventually exits (stated under FairSpec; the loop leaving by a fault is
\* counted as an exit here, so that only a lost stop request refutes it).
C1_StopRequestEndsLoop == end_called ~> (pc \in {"ended", "crashed"})

\* C2: once sock.recv raised socket.error the receiver is inactive and the
\* loop only leaves: no further socket read, nothing mirrored or pushed for
\* that read or later (only the end mark and the pipeline's close follow).
C2_SocketErrorIsTerminal ==
    [][sock_failed' =>
          /\ ~active'
          /\ pc' \in {"loop", "closing", "ended"}
          /\ UNCHANGED <<nreads, recv_time, state, text, slots, trans, calls,
                         delivered, buffered>>
          /\ \/ outfile' = outfile
             \/ pc' = "ended" /\ outfile' = Append(outfile, END_MARK)
          /\ \/ UNCHANGED filters
             \/ pc' = "ended"]_vars

\* C2 witness: a socket error after a buffer was received, and the loop left.
C2_Witness == sock_failed /\ pc = "ended" /\ recv_time > 0

\* C3: whenever the read loop has stopped, for whatever reason, the
\* pipeline was closed and, with a transcript, the end mark was written
\* exactly once, after every mirrored write.
C3_EveryStopClosesAndMarks ==
    pc \in {"ended", "crashed"} =>
        /\ closed = 1
        /\ has_outfile => /\ NumMarks(outfile) = 1
                          /\ outfile[Len(outfile)] = END_MARK

\* C4: no exception escapes the read loop: a fault raised while a buffer
\* is processed ends run() normally, never by the exception.
C4_NoExceptionEscapesRun == pc # "crashed"

\* C5: for every ensemble that reached the sink, whatever the state before,
\* the state became COLLECTING_DATA and the latest-ensemble slot held that
\* ensemble.
C5_EnsembleSetsCollectingData ==
    \A i \in DOMAIN delivered :
        /\ delivered[i].state = State_COLLECTING_DATA
        /\ delivered[i].latest_pd0 = delivered[i].pd0

\* C5 witness: an ensemble reached the sink while the state was PROMPT.
C5_Witness == \E i \in DOMAIN delivered : delivered[i].before = State_PROMPT

\* C6: after a text buffer that completed a line, when the last line
\* completed, trimmed of trailing whitespace, is the prompt, the state is
\* PROMPT, whatever the state before.
C6_PromptLineSetsPrompt ==
    \A i \in DOMAIN buffered :
        (buffered[i].numl > 0 /\ Rstrip(buffered[i].last_line) = PROMPT)
            => buffered[i].state = State_PROMPT

\* C6 witness: a completed prompt line with trailing whitespace, received
\* in a state other than PROMPT.
C6_Witness ==
    \E i \in DOMAIN buffered :
        /\ buffered[i].numl > 0
        /\ buffered[i].last_line # PROMPT
        /\ Rstrip(buffered[i].last_line) = PROMPT
        /\ buffered[i].before # State_PROMPT

\* C7 as stated: in state PROMPT, a text buffer whose last completed line is
\* not the prompt leaves the state the receiver holds at construction, TBD.
C7_NonPromptLineResetsToTBD ==
    \A i \in DOMAIN buffered :
        (/\ buffered[i].before = State_PROMPT
         /\ buffered[i].numl > 0
         /\ Rstrip(buffered[i].last_line) # PROMPT)
            => buffered[i].state = State_TBD

\* C7 amended: in state PROMPT, a text buffer whose last completed line is
\* not the prompt leaves the state unset (None), which is not the state TBD
\* held at construction.
C7_NonPromptLineUnsetsState ==
    \A i \in DOMAIN buffered :
        (/\ buffered[i].before = State_PROMPT
         /\ buffered[i].numl > 0
         /\ Rstrip(buffered[i].last_line) # PROMPT)
            => (buffered[i].state = None /\ buffered[i].state # State_TBD)

\* C7 witness: a non-prompt line completed while the state was PROMPT.
C7_Witness ==
    \E i \in DOMAIN buffered :
        /\ buffered[i].before = State_PROMPT
        /\ buffered[i].numl > 0
        /\ Rstrip(buffered[i].last_line) # PROMPT

\* C8: the line history never holds more than MAX_NUM_LINES entries.
C8_LinesBounded == Len(lines) <= MAX_NUM_LINES

\* C8 witness: more lines were completed than the history may hold.
C8_Witness == Len(fed) > MAX_NUM_LINES /\ lines # <<>>

\* C9: once more than MAX_NUM_LINES lines were completed, the line history
\* is exactly the newest MAX_NUM_LINES of them, in arrival order.
C9_KeepsNewestMaxLines ==
    Len(fed) > MAX_NUM_LINES => lines = LastN(fed, MAX_NUM_LINES)

\* C10: no transition record has equal old and new states.
C10_NoRedundantTransition == \A i \in DOMAIN trans : trans[i][1] # trans[i][2]

\* C10 witness: _set_state was called with the state already held (an
\* ensemble arrived in state COLLECTING_DATA) and logged nothing.
C10_Witness ==
    /\ \E i \in DOMAIN delivered : delivered[i].before = State_COLLECTING_DATA
    /\ Len(trans) = 2

\* C11: with a listener, the listener is invoked once for each ensemble the
\* sink is given, in the order of delivery, and every invocation has returned
\* wherever the loop stands outside the push (so before the next read);
\* without a listener nothing is invoked.
C11_ListenerOncePerEnsemble ==
    /\ Len(calls) = (IF data_listener THEN Len(delivered) ELSE 0)
    /\ \A i \in DOMAIN calls : calls[i].pd0 = delivered[i].pd0

\* Two different ensembles were delivered and the listener saw both.
C11_Witness ==
    /\ data_listener
    /\ Len(calls) = 2
    /\ calls[1].pd0 # calls[2].pd0
    /\ pc = "sock_recv"

C13_EndOnlyClearsActive ==
    /\ [](ENABLED End)
    /\ [][End => /\ ~active'
                 /\ UNCHANGED <<config, pc, recv, state, text, recv_time, slots,
                                filters, closed, logs, nreads, sock_result,
                                hist>>]_vars

\* end() has returned, twice or more, while the loop is still in a read.
C13_Witness == end_called /\ ~active /\ pc = "sock_recv"

\* C14: until start() the receiver is inactive, in state TBD, with no line
\* and no read; it leaves Created only by start(), _active becomes True only
\* in run() after start(), and once Ended it stays Ended and inactive and
\* reads the socket no more.
C14_Lifecycle ==
    /\ [](pc = "created" => /\ ~active
                            /\ state = State_TBD
                            /\ lines = <<>> /\ fed = <<>> /\ new_line = <<>>
                            /\ nreads = 0 /\ recv_time = 0
                            /\ sock_result = None /\ pushed = <<>>)
    /\ [][/\ (pc = "created" /\ pc' # pc) => pc' = "started"
          /\ (active' /\ ~active) => pc = "started"
          /\ pc' = "created" => pc = "created"
          /\ pc = "ended" => /\ pc' = "ended"
                             /\ ~active /\ ~active'
                             /\ nreads' = nreads
                             /\ sock_result' = sock_result]_vars

\* A receiver that was started, has read and has ended on end().
C14_Witness == pc = "ended" /\ recv_time > 0 /\ end_called /\ ~sock_failed

\* C15: a read that times out takes the loop back to the test of _active in
\* _recv() with _active, the state, the lines, the receive time, both slots,
\* the filters, the transcript and every log as they were; and a read is
\* attempted only from that test, with _active True.
C15_TimeoutChangesNothing ==
    [][/\ (pc = "sock_recv" /\ pc' = "recv_check")
           => /\ sock_result' = "timeout"
              /\ UNCHANGED <<active, recv, state, text, recv_time, slots,
                             filters, closed, logs, nreads, hist>>
       /\ (pc # "sock_recv" /\ pc' = "sock_recv")
           => (pc = "recv_check" /\ active)]_vars

\* A read timed out after an earlier read returned bytes, and the loop is
\* back in sock.recv.
C15_Witness ==
    sock_result = "timeout" /\ pc = "sock_recv" /\ recv_time > 0 /\ active

\* The buffers written to the transcript, without the end mark.
MirrorWrites == SelectSeq(outfile, LAMBDA e : e # END_MARK)

\* C16: with a transcript, a buffer about to be pushed is already the last
\* buffer written, prefixed (when prefixing) with the state held before the
\* push; buffers are written one for one and in the order they are pushed.
C16_MirroredBeforePushed ==
    has_outfile =>
        /\ Len(MirrorWrites) = Len(pushed) + (IF pc = "send" THEN 1 ELSE 0)
        /\ pc = "send" =>
               MirrorWrites[Len(MirrorWrites)] =
                   (IF prefix_state THEN PrefixLines(recv, state) ELSE recv)
        /\ ~prefix_state => \A i \in DOMAIN pushed : MirrorWrites[i] = pushed[i]

\* A buffer that will change the state is written with the state before it.
C16_Witness ==
    /\ has_outfile /\ prefix_state
    /\ pc = "send"
    /\ state = State_PROMPT
    /\ recv = <<"x", NL>>
    /\ outfile[Len(outfile)] = <<"x", NL, State_PROMPT>>

\* The buffers bs as one byte sequence.
RECURSIVE Flatten(_)
Flatten(bs) == IF bs = <<>> THEN <<>> ELSE Head(bs) \o Flatten(Tail(bs))

\* The lines ls as the bytes they were completed from.
RECURSIVE JoinLines(_)
JoinLines(ls) ==
    IF ls = <<>> THEN <<>> ELSE Head(ls) \o <<NL>> \o JoinLines(Tail(ls))

\* C17: with ooi_digi the loop leaves both slots None, invokes no listener,
\* gives the sink no timestamp and no ensemble, never sets or logs
\* COLLECTING_DATA, holds nothing back in a filter, and the line handling has
\* seen exactly the bytes pushed, in order.
C17_DigiSkipsExtraction ==
    ooi_digi =>
        /\ latest_ts = None /\ latest_pd0 = None
        /\ calls = <<>> /\ delivered = <<>> /\ extracted = <<>>
        /\ state # State_COLLECTING_DATA
        /\ \A i \in DOMAIN trans : trans[i][2] # State_COLLECTING_DATA
        /\ tsbuf = <<>> /\ pdbuf = <<>>
        /\ JoinLines(fed) \o new_line = Flatten(pushed)

\* With ooi_digi, a timestamp marker and a whole ensemble frame were pushed.
C17_Witness ==
    /\ ooi_digi
    /\ pushed = << <<TS_MARK, "x">>, <<PD0_SIG, "x", "x">> >>
    /\ data_listener

\* What the sink is given when all the bytes pushed so far are sent to new
\* filters in one block.
OneCallExtracted ==
    SinkAll([Fields EXCEPT !.extracted = <<>>],
            Pipeline(ooi_digi, <<>>, <<>>, Flatten(pushed)).events,
            FALSE, 0).extracted

\* The values of one kind ("ts" or "pd0") in an extraction log, in order.
OfKind(log, kind) == SelectSeq(log, LAMBDA e : e[1] = kind)

\* s is the beginning of t.
IsPrefix(s, t) == Len(s) <= Len(t) /\ s = SubSeq(t, 1, Len(s))

C18_LoopIsOnlyWriter ==
    [][(state' # state \/ lines' # lines \/ latest_pd0' # latest_pd0)
       => LoopStep]_vars

\* C18, amended: the state and the lines change only in steps of the loop or
\* in reset_internal_info(), the latest-ensemble slot only in steps of the
\* loop or in set_latest_pd0(), the latest-timestamp slot only in steps of
\* the loop; start() and end() write none of them.
C18_WritersAreLoopResetAndSetter ==
    [][/\ (state' # state \/ lines' # lines)
           => (LoopStep \/ ResetInternalInfo)
       /\ latest_pd0' # latest_pd0
           => (LoopStep \/ \E pd0 \in {"x"} : SetLatestPd0(pd0))
       /\ latest_ts' # latest_ts => LoopStep]_vars

\* A caller has set the slot when no ensemble was ever decoded, and has
\* reset the state after the loop had changed it.
C18_Witness ==
    /\ latest_pd0 = "x" /\ extracted = <<>>
    /\ state = State_TBD /\ Len(trans) > 1 /\ lines = <<>> /\ fed = <<>>
    /\ nreads > 0

\* C19: build_receiver appends one receiver, bound to a Greenlet when the
\* last builder call was use_greenlets() and to a Thread when it was
\* use_default() or there was none, and not started; no step changes what a
\* receiver already built is bound to.
C19_BoundAtBuildTime ==
    [][/\ Len(receivers') >= Len(receivers)
       /\ \A i \in DOMAIN receivers : receivers'[i].thr = receivers[i].thr
       /\ Len(receivers') > Len(receivers)
           => /\ Len(receivers') = Len(receivers) + 1
              /\ receivers'[Len(receivers')].thr =
                     (IF last_toggle = "use_greenlets" THEN "Greenlet"
                      ELSE "Thread")
              /\ ~receivers'[Len(receivers')].started
              /\ \A i \in DOMAIN receivers :
                     receivers'[i].started = receivers[i].started]_vars

\* A receiver built by default, one built after use_greenlets(), and the
\* builder set back to the default since: both keep what they were bound to.
C19_Witness ==
    /\ Len(receivers) = 2
    /\ receivers[1].thr = "Thread" /\ receivers[2].thr = "Greenlet"
    /\ last_toggle = "use_default" /\ ~use_greenlet
    /\ receivers[1].started /\ ~receivers[2].started

\* The bytes pd0_filter has to look at in a push of block: its residual and
\* what timestamp_filter sends it.
Pd0Data(block) ==
    LET t == TsScan(tsbuf \o block) IN
    pdbuf \o Flatten([k \in DOMAIN t.out |-> t.out[k].bytes])

\* C21: in a push that leaves a signature followed by fewer bytes than a
\* frame, the bytes are kept and nothing happens at the sink but timestamps:
\* no ensemble, no listener call, no change of state or of the ensemble slot;
\* in a push that brings the missing bytes of a frame that was waiting, the
\* ensemble is given to the sink, once, and leaves the filter.
C21_IncompleteFrameWaits ==
    [][(pc = "send" /\ pc' # "send" /\ ~ooi_digi) =>
          LET data == Pd0Data(recv)
              i == Find(data, PD0_SIG)
          IN  /\ (i > 0 /\ Len(data) < i + PD0_LEN - 1)
                  => /\ pdbuf' = data
                     /\ UNCHANGED <<delivered, calls, state, latest_pd0, trans>>
                     /\ OfKind(extracted', "pd0") = OfKind(extracted, "pd0")
                     /\ pc' = "loop"
              /\ (/\ pdbuf # <<>>
                  /\ Len(data) >= i + PD0_LEN - 1
                  /\ data[i + 2] = Checksum(data[i + 1]))
                  => /\ Len(delivered') > Len(delivered)
                     /\ delivered'[Len(delivered) + 1].pd0 = data[i + 1]
                     /\ Len(pdbuf') <= Len(data) - (i + PD0_LEN - 1)
                     /\ Find(Drop(data, i + PD0_LEN - 1), PD0_SIG) = 0
                         => Len(delivered') = Len(delivered) + 1]_vars

\* A frame waited for its last byte through a read and was then given to the
\* sink and the listener, once.
C21_Witness ==
    /\ pushed = << <<PD0_SIG, "x">>, <<"x">> >>
    /\ Len(delivered) = 1 /\ delivered[1].pd0 = "x"
    /\ Len(calls) = 1
    /\ pdbuf = <<>>

\* C22: in a push where the first signature pd0_filter looks at begins a
\* frame with a wrong checksum, the span gives no ensemble and is not kept;
\* a valid frame that follows it is the next ensemble given to the sink, a
\* cut frame that follows it waits for the next reads, and the loop goes on
\* unless the listener raised.
C22_BadChecksumIsSkipped ==
    [][(pc = "send" /\ pc' # "send" /\ ~ooi_digi) =>
          LET data == Pd0Data(recv)
              i == Find(data, PD0_SIG)
              rest == Drop(data, i)
              j == Find(rest, PD0_SIG)
          IN  (/\ i > 0
               /\ Len(data) >= i + PD0_LEN - 1
               /\ data[i + 2] # Checksum(data[i + 1]))
              => /\ Len(pdbuf') <= Len(rest)
                 /\ j = 0 => (delivered' = delivered /\ pdbuf' = <<>>)
                 /\ (j > 0 /\ Len(rest) < j + PD0_LEN - 1)
                        => (delivered' = delivered /\ Find(pdbuf', PD0_SIG) > 0)
                 /\ (/\ j > 0
                     /\ Len(rest) >= j + PD0_LEN - 1
                     /\ rest[j + 2] = Checksum(rest[j + 1]))
                        => /\ Len(delivered') > Len(delivered)
                           /\ delivered'[Len(delivered) + 1].pd0 = rest[j + 1]
                 /\ pc' = "crashed" => Len(calls') > Len(calls)]_vars

\* A frame with a wrong checksum was read, then a valid frame, which was
\* given to the sink; the loop goes on.
C22_Witness ==
    /\ pushed = << <<PD0_SIG, "x", "y">>, <<PD0_SIG, "x", "x">> >>
    /\ Len(delivered) = 1 /\ delivered[1].pd0 = "x"
    /\ pc = "loop"

\* The payloads of the complete valid frames in data, in stream order.
RECURSIVE Frames(_)
Frames(data) ==
    LET i == Find(data, PD0_SIG) IN
    IF i = 0 \/ Len(data) < i + PD0_LEN - 1 THEN <<>>
    ELSE IF data[i + 2] # Checksum(data[i + 1]) THEN Frames(Drop(data, i))
    ELSE <<data[i + 1]>> \o Frames(Drop(data, i + PD0_LEN - 1))

\* C23: every complete valid frame pd0_filter looks at in a push is given to
\* the sink, and to the listener when there is one, in stream order, in that
\* push: none is dropped and none waits for the next read.
C23_AllEnsemblesDelivered ==
    [][(pc = "send" /\ pc' # "send" /\ ~ooi_digi) =>
          LET fs == Frames(Pd0Data(recv)) IN
          /\ Len(delivered') = Len(delivered) + Len(fs)
          /\ \A k \in DOMAIN fs : delivered'[Len(delivered) + k].pd0 = fs[k]
          /\ data_listener =>
                 /\ Len(calls') = Len(calls) + Len(fs)
                 /\ \A k \in DOMAIN fs : calls'[Len(calls) + k].pd0 = fs[k]]_vars

\* C27: a text buffer that completed no line left the state as it was when
\* _buffer_received was entered.
C27_NoLineNoStateChange ==
    \A i \in DOMAIN buffered :
        buffered[i].numl = 0 => buffered[i].state = buffered[i].before

\* C28: whenever the loop is back at its test, every non-empty buffer that
\* sock.recv returned so far has been pushed into the pipeline, once, and
\* written to the transcript when there is one, whatever end() did meanwhile.
C28_EveryReadIsPushed ==
    pc = "loop" =>
        /\ Len(pushed) = nreads
        /\ has_outfile => Len(MirrorWrites) = nreads

\* The index of the last occurrence of b in s, 0 when there is none.
RECURSIVE FindLast(_, _)
FindLast(s, b) ==
    IF s = <<>> THEN 0
    ELSE IF s[Len(s)] = b THEN Len(s)
    ELSE FindLast(Take(s, Len(s) - 1), b)

\* The last line that s completes: what stands between its last newline and
\* the newline before (s holds a newline).
LastCompleted(s) ==
    LET k == FindLast(s, NL)
        j == FindLast(Take(s, k - 1), NL)
    IN  SubSeq(s, j + 1, k - 1)

\* recv reaches the sink whole, as the text of one pass.
IsTextPush ==
    \/ ooi_digi
    \/ /\ tsbuf = <<>> /\ pdbuf = <<>>
       /\ Find(recv, TS_MARK) = 0 /\ Find(recv, PD0_SIG) = 0

\* C29: a push of text that completes one or more lines leaves the state
\* PROMPT when the last line it completed, without its trailing whitespace,
\* is the prompt, and None otherwise, whatever the state was and whatever
\* the lines completed before that one.
C29_LastCompletedLineDecides ==
    [][(pc = "send" /\ pc' # "send" /\ IsTextPush /\ Find(recv, NL) > 0) =>
          state' = (IF Rstrip(LastCompleted(new_line \o recv)) = PROMPT
                    THEN State_PROMPT ELSE None)]_vars

\* After an ensemble (state COLLECTING_DATA) one buffer completed a
\* non-prompt line and then the prompt.
C29_Witness ==
    /\ pushed = << <<PD0_SIG, "x", "x">>, <<"x", NL, ">", NL>> >>
    /\ state = State_PROMPT
    /\ Len(buffered) = 1 /\ buffered[1].before = State_COLLECTING_DATA
    /\ buffered[1].numl = 2

\* C30: in a push that the filters turn into one pass of the sink carrying an
\* ensemble and text that completes a line, the timestamp if any is recorded
\* first, then the ensemble is dispatched from the state held before the
\* push, then the text is processed from COLLECTING_DATA; the state after
\* the push is the one the text decides, PROMPT or None.
C30_TextDecidesAfterEnsemble ==
    [][(pc = "send" /\ pc' # "send" /\ ~ooi_digi) =>
          LET evs == Pipeline(ooi_digi, tsbuf, pdbuf, recv).events IN
          (/\ Len(evs) = 1
           /\ evs[1].pd0 # None
           /\ Find(evs[1].buffer, NL) > 0)
          => /\ extracted' = extracted
                     \o (IF evs[1].ts # None THEN << <<"ts", evs[1].ts>> >>
                         ELSE <<>>)
                     \o << <<"pd0", evs[1].pd0>> >>
             /\ Len(delivered') = Len(delivered) + 1
             /\ delivered'[Len(delivered')].before = state
             /\ Len(buffered') = Len(buffered) + 1
             /\ buffered'[Len(buffered')].before = State_COLLECTING_DATA
             /\ state' = (IF Rstrip(LastCompleted(new_line \o evs[1].buffer))
                              = PROMPT
                          THEN State_PROMPT ELSE None)]_vars

\* C31: at every invocation of the listener the state was COLLECTING_DATA
\* and the latest-ensemble slot held the ensemble the listener was given.
C31_StoredBeforeListener ==
    \A i \in DOMAIN calls :
        /\ calls[i].state = State_COLLECTING_DATA
        /\ calls[i].latest_pd0 = calls[i].pd0

\* The listener was invoked for an ensemble that came in state PROMPT, and
\* for one that came when the slot held another ensemble.
C31_Witness ==
    /\ \E i \in DOMAIN calls : delivered[i].before = State_PROMPT
    /\ \E i \in DOMAIN calls : i > 1 /\ calls[i].pd0 # calls[i - 1].pd0

\* No byte of b is a timestamp marker or an ensemble signature.
IsText(b) == Find(b, TS_MARK) = 0 /\ Find(b, PD0_SIG) = 0

\* The sink's fields after _buffer_received is given, on a receiver just
\* constructed, all the bytes pushed so far as one buffer.
OneCallText ==
    BufferReceived([Fields EXCEPT !.state = State_TBD, !.last_line = <<>>,
                                  !.new_line = <<>>, !.lines = <<>>,
                                  !.fed = <<>>],
                   Flatten(pushed))

\* C32: after pushes of text only, however the bytes were split over the
\* reads, the line history, the line in progress, the last completed line
\* and the state are the ones the same bytes give as one buffer: a line cut
\* by a read is one entry, the concatenation of its parts.
C32_TextSplitInvariance ==
    (/\ pc = "loop"
     /\ pushed # <<>>
     /\ \A k \in DOMAIN pushed : IsText(pushed[k]))
    => \A one \in {OneCallText} :
           /\ lines = one.lines
           /\ fed = one.fed
           /\ new_line = one.new_line
           /\ last_line = one.last_line
           /\ state = one.state

\* A line came cut over two reads and is one entry of the history.
C32_Witness ==
    /\ pc = "loop"
    /\ pushed = << <<"x">>, <<"x", NL>> >>
    /\ lines = << <<"x", "x">> >>
    /\ state = None

\* C33: a read that returns no byte changes nothing but the loop's place:
\* _active, the state, the lines, the receive time, the slots, the filters,
\* the transcript and every log stay as they were from sock.recv to the
\* loop's test, nothing is pushed, and the loop leaves its test for the
\* closing only when _active is False.
C33_EmptyReadChangesNothing ==
    [][/\ (pc = "sock_recv" /\ pc' = "recv_done" /\ recv' = <<>>)
           => UNCHANGED <<active, state, text, recv_time, slots, filters,
                          closed, logs, nreads, hist>>
       /\ (pc = "recv_done" /\ recv = <<>> /\ pc' # "recv_done")
           => /\ pc' = "loop"
              /\ UNCHANGED <<active, state, text, recv_time, slots, filters,
                             closed, logs, nreads, hist>>
       /\ (pc = "loop" /\ pc' # "loop")
           => pc' = (IF active THEN "recv_check" ELSE "closing")]_vars

\* After a read with bytes, a read returned no byte and the loop is back at
\* its test, active, with as many pushes as reads with bytes.
C33_Witness ==
    /\ pc = "loop" /\ sock_result = "data" /\ recv = NoBuffer
    /\ active /\ ~end_called
    /\ recv_time > 0 /\ Len(pushed) = nreads

\* C34: the transition records tell every change of the state: the new state
\* of the last record is the state held, and the old state of every record
\* is the new state of the record before.
C34_EveryChangeLogged ==
    /\ trans[Len(trans)][2] = state
    /\ \A i \in DOMAIN trans : i > 1 => trans[i][1] = trans[i - 1][2]

\* C35: a push that gives the sink timestamps and ensembles and no text
\* leaves the line history, the last completed line and the line in
\* progress as they were; when it gives timestamps only, the state too.
C35_ExtractedIsNotText ==
    [][(pc = "send" /\ pc' # "send" /\ ~ooi_digi) =>
          LET evs == Pipeline(ooi_digi, tsbuf, pdbuf, recv).events IN
          (\A k \in DOMAIN evs : evs[k].buffer = <<>>)
          => /\ UNCHANGED <<lines, last_line, new_line, fed>>
             /\ (\A k \in DOMAIN evs : evs[k].pd0 = None) => state' = state]_vars

\* With a line in progress a timestamp was dispatched: the line in progress
\* and the state are as they were.
C35_Witness ==
    /\ pushed = << <<"x">>, <<TS_MARK, "x">> >>
    /\ latest_ts = "x"
    /\ new_line = <<"x">> /\ state = State_TBD

\* C36: a call of reset_internal_info() leaves the line history, the last
\* completed line and the line in progress empty, the receive time 0 and
\* the state TBD, and the two slots and _active as they were.
C36_ResetClearsTextOnly ==
    [][ResetInternalInfo =>
          /\ lines' = <<>> /\ last_line' = <<>> /\ new_line' = <<>>
          /\ recv_time' = 0
          /\ state' = State_TBD
          /\ UNCHANGED <<latest_pd0, latest_ts, active>>]_vars

\* reset_internal_info() was called on a running receiver that had read a
\* line and decoded an ensemble: the slot still holds the ensemble.
C36_Witness ==
    /\ active /\ pc = "sock_recv"
    /\ Len(buffered) > 0 /\ OfKind(extracted, "pd0") # <<>>
    /\ recv_time = 0 /\ lines = <<>> /\ last_line = <<>>
    /\ state = State_TBD /\ trans[Len(trans)][1] = State_COLLECTING_DATA
    /\ latest_pd0 = "x"

\* s is an element of the sequence q.
InSeq(s, q) == \E k \in DOMAIN q : q[k] = s

\* C37: in get_samples(particle_class, count) every particle taken from
\* data_callback_result is of particle_class, every queued particle of
\* another class is still in the queue, and a call that returns without
\* timeout returns count particles.
C37_OnlyMatchingTaken ==
    gs_class # None =>
        /\ \A k \in DOMAIN gs_result : gs_result[k].cls = gs_class
        /\ \A k \in DOMAIN arrivals :
               arrivals[k].cls \in Classes \ {gs_class}
                   => InSeq(arrivals[k], data_callback_result)
        /\ gs_pc = "returned" => Len(gs_result) = gs_count

\* C38: in get_samples(stream_name, sample_count) the samples read and the
\* samples queued are, in this order, the samples of the stream in arrival
\* order; the call returns sample_count samples; SampleTimeout is raised
\* only with fewer than sample_count samples read.
C38_OldestFirstTimeoutOnlyWhenShort ==
    (gs_class = None /\ gs_pc # "idle") =>
        /\ gs_result \o samples_received
               = SelectSeq(arrivals, LAMBDA d : d.cls = StreamSample)
        /\ gs_pc = "returned" => Len(gs_result) = gs_count
        /\ gs_pc = "raised" => Len(gs_result) < gs_count
====
